---- MODULE Spec2Model ----
(***************************************************************************)
(* FlashAPI request-dispatch core: the routing engine (src/router.py) and  *)
(* the per-request pipeline of the application object (src/app.py).        *)
(*                                                                         *)
(* Strings are sequences of one-character strings, so that the compiled    *)
(* pattern of a route is matched character by character, as re does.       *)
(***************************************************************************)
EXTENDS Integers, Sequences, FiniteSets, TLC

----------------------------------------------------------------------------
(* Bounds of the model *)

MaxRoutes == 2
MaxMiddleware == 2
MaxUserHandlers == 1
MaxRequests == 1

----------------------------------------------------------------------------
(* Generic helpers *)

Range(s) == {s[i] : i \in 1..Len(s)}

Max(S) == CHOOSE x \in S : \A y \in S : y <= x

Min(S) == CHOOSE x \in S : \A y \in S : x <= y

RECURSIVE Reverse(_)
Reverse(s) == IF s = <<>> THEN <<>> ELSE Append(Reverse(Tail(s)), Head(s))

IsPrefix(p, s) == Len(p) <= Len(s) /\ SubSeq(s, 1, Len(p)) = p

----------------------------------------------------------------------------
(* Characters *)

Digits == {"0", "1", "2", "3", "4", "5", "6", "7", "8", "9"}

HexDash == Digits \cup {"a", "b", "c", "d", "e", "f", "-"}

DigitVal(c) ==
    CASE c = "0" -> 0 [] c = "1" -> 1 [] c = "2" -> 2 [] c = "3" -> 3
      [] c = "4" -> 4 [] c = "5" -> 5 [] c = "6" -> 6 [] c = "7" -> 7
      [] c = "8" -> 8 [] c = "9" -> 9

\* str.lower() on one character (the upper-case letters the model uses)
LowerChar(c) ==
    CASE c = "T" -> "t" [] c = "R" -> "r" [] c = "U" -> "u" [] c = "E" -> "e"
      [] c = "Y" -> "y" [] c = "S" -> "s" [] c = "N" -> "n" [] c = "O" -> "o"
      [] OTHER -> c

Lower(s) == [i \in 1..Len(s) |-> LowerChar(s[i])]

----------------------------------------------------------------------------
(* Path templates.  A template is the sequence of pieces the two           *)
(* placeholder expressions of _compile_pattern cut it into: literal        *)
(* characters, typed placeholders {name:type}, untyped placeholders {name}.*)

Lit(c) == [k |-> "lit", c |-> c, name |-> "", type |-> ""]

Typed(name, type) == [k |-> "typed", c |-> "", name |-> name, type |-> type]

Untyped(name) == [k |-> "untyped", c |-> "", name |-> name, type |-> ""]

Lits(s) == [i \in 1..Len(s) |-> Lit(s[i])]

\* type_map.get(param_type, r"[^/]+"): the group body of a typed placeholder
TypeMap(type) ==
    CASE type = "int" -> "digits"
      [] type = "str" -> "nonslash"
      [] type = "float" -> "float"
      [] type = "uuid" -> "hexdash"
      [] OTHER -> "nonslash"

\* One piece of the compiled expression: a literal character (an unescaped
\* "." is the any-character wildcard) or a named group.
RegexLit(c) == [k |-> "lit", c |-> c, name |-> "", body |-> ""]

RegexGroup(name, body) == [k |-> "group", c |-> "", name |-> name, body |-> body]

CompileRegex(path) ==
    [i \in 1..Len(path) |->
        IF path[i].k = "typed" THEN RegexGroup(path[i].name, TypeMap(path[i].type))
        ELSE IF path[i].k = "untyped" THEN RegexGroup(path[i].name, "nonslash")
        ELSE RegexLit(path[i].c)]

CompileParamTypes(path) ==
    LET typed == {i \in 1..Len(path) : path[i].k = "typed"}
        names == {path[i].name : i \in typed}
    IN [n \in names |-> path[Max({i \in typed : path[i].name = n})].type]

\* Route._compile_pattern: (pattern, param_types)
CompilePattern(path) == [pattern |-> CompileRegex(path), param_types |-> CompileParamTypes(path)]

----------------------------------------------------------------------------
(* Matching a compiled pattern against a path *)

AllIn(s, S) == \A i \in 1..Len(s) : s[i] \in S

\* does the whole of s match the body of a group?
\*   digits  \d+      nonslash [^/]+      hexdash [0-9a-f-]+
\*   float   \d+\.?\d*
GroupAccepts(body, s) ==
    /\ Len(s) >= 1
    /\ CASE body = "digits" -> AllIn(s, Digits)
         [] body = "hexdash" -> AllIn(s, HexDash)
         [] body = "float" ->
               \E d \in 1..Len(s) :
                   /\ AllIn(SubSeq(s, 1, d), Digits)
                   /\ \/ d = Len(s)
                      \/ /\ s[d + 1] = "."
                         /\ AllIn(SubSeq(s, d + 2, Len(s)), Digits)
         [] OTHER -> \A i \in 1..Len(s) : s[i] # "/"

NoMatch == [ok |-> FALSE, groups |-> <<>>]

\* the line feed character
NL == "\n"

\* "$" without re.MULTILINE: at the end of the string, and just before a
\* line feed that is the last character of the string
AtEnd(s) == s = <<>> \/ s = <<NL>>

\* one character against one character of the expression; the template text
\* is not escaped, so "." is the wildcard for anything but a line feed
LitAccepts(c, ch) == IF c = "." THEN ch # NL ELSE c = ch

\* the piece is followed by an unescaped "+", the one-or-more quantifier
Repeated(regex) == Len(regex) >= 2 /\ regex[2].k = "lit" /\ regex[2].c = "+"

\* pattern.match(path) for the anchored expression ^...$ : the groups of the
\* first match in the order the backtracking matcher tries them (every
\* quantifier is greedy, so a group or a repeated character takes the
\* longest text that lets the rest of the expression match).  Of the
\* characters the expression language gives a meaning to, template text in
\* this model holds "." and a "+" after a literal character.
RECURSIVE RegexMatch(_, _)
RegexMatch(regex, s) ==
    IF regex = <<>> THEN
        IF AtEnd(s) THEN [ok |-> TRUE, groups |-> <<>>] ELSE NoMatch
    ELSE IF Head(regex).k = "lit" /\ Repeated(regex) THEN
        LET ks == {k \in 1..Len(s) :
                      /\ \A i \in 1..k : LitAccepts(Head(regex).c, s[i])
                      /\ RegexMatch(Tail(Tail(regex)), SubSeq(s, k + 1, Len(s))).ok}
        IN IF ks = {} THEN NoMatch
           ELSE RegexMatch(Tail(Tail(regex)), SubSeq(s, Max(ks) + 1, Len(s)))
    ELSE IF Head(regex).k = "lit" THEN
        IF s # <<>> /\ LitAccepts(Head(regex).c, s[1])
        THEN RegexMatch(Tail(regex), Tail(s))
        ELSE NoMatch
    ELSE
        LET ks == {k \in 1..Len(s) :
                      /\ GroupAccepts(Head(regex).body, SubSeq(s, 1, k))
                      /\ RegexMatch(Tail(regex), SubSeq(s, k + 1, Len(s))).ok}
        IN IF ks = {} THEN NoMatch
           ELSE LET k == Max(ks)
                    rest == RegexMatch(Tail(regex), SubSeq(s, k + 1, Len(s)))
                IN [ok |-> TRUE,
                    groups |-> <<[name |-> Head(regex).name, text |-> SubSeq(s, 1, k)]>>
                                  \o rest.groups]

----------------------------------------------------------------------------
(* Parameter values and their conversion (Route.match, router.py 56-70) *)

StrVal(s) == [t |-> "str", s |-> s, n |-> 0, e |-> 0, b |-> FALSE]

IntVal(n) == [t |-> "int", s |-> <<>>, n |-> n, e |-> 0, b |-> FALSE]

FloatVal(n, e) == [t |-> "float", s |-> <<>>, n |-> n, e |-> e, b |-> FALSE]

BoolVal(b) == [t |-> "bool", s |-> <<>>, n |-> 0, e |-> 0, b |-> b]

\* int(value) on a string of decimal digits
RECURSIVE ParseInt(_)
ParseInt(s) ==
    IF s = <<>> THEN 0
    ELSE 10 * ParseInt(SubSeq(s, 1, Len(s) - 1)) + DigitVal(s[Len(s)])

RECURSIVE StripZeros(_)
StripZeros(s) ==
    IF s # <<>> /\ s[Len(s)] = "0" THEN StripZeros(SubSeq(s, 1, Len(s) - 1)) ELSE s

\* float(value) on digits with an optional fraction: n * 10^(-e), normalised
ParseFloat(s) ==
    LET dots == {i \in 1..Len(s) : s[i] = "."}
        ip == IF dots = {} THEN s ELSE SubSeq(s, 1, Min(dots) - 1)
        fp == IF dots = {} THEN <<>> ELSE StripZeros(SubSeq(s, Min(dots) + 1, Len(s)))
    IN FloatVal(ParseInt(ip \o fp), Len(fp))

BoolWords == {<<"t", "r", "u", "e">>, <<"1">>, <<"y", "e", "s">>}

\* a conversion that compares the text with the words as it is written
ConvertCaseSensitive(param_type, value) ==
    CASE param_type = "int" -> IntVal(ParseInt(value))
      [] param_type = "float" -> ParseFloat(value)
      [] param_type = "bool" -> BoolVal(value \in BoolWords)
      [] OTHER -> StrVal(value)

\* the conversions of router.py 60-67 on the text a group captured
Convert(param_type, value) ==
    CASE param_type = "int" -> IntVal(ParseInt(value))
      [] param_type = "float" -> ParseFloat(value)
      [] param_type = "bool" -> BoolVal(Lower(value) \in BoolWords)
      [] OTHER -> StrVal(value)

NoParams == [ok |-> FALSE, params |-> <<>>]

\* a match that does not look at the method
RouteMatchAnyMethod(route, path, method) ==
    LET m == RegexMatch(route.pattern, path)
    IN IF ~m.ok THEN NoParams
       ELSE LET names == {m.groups[i].name : i \in 1..Len(m.groups)}
                text(nm) == m.groups[CHOOSE i \in 1..Len(m.groups) :
                                         m.groups[i].name = nm].text
            IN [ok |-> TRUE,
                params |-> [nm \in names |->
                              IF nm \in DOMAIN route.param_types
                              THEN Convert(route.param_types[nm], text(nm))
                              ELSE StrVal(text(nm))]]

\* Route.match(path, method): None, or the dictionary of converted parameters
RouteMatch(route, path, method) ==
    IF method \notin Range(route.methods) THEN NoParams
    ELSE LET m == RegexMatch(route.pattern, path)
         IN IF ~m.ok THEN NoParams
            ELSE LET names == {m.groups[i].name : i \in 1..Len(m.groups)}
                     text(nm) == m.groups[CHOOSE i \in 1..Len(m.groups) :
                                              m.groups[i].name = nm].text
                 IN [ok |-> TRUE,
                     params |-> [nm \in names |->
                                   IF nm \in DOMAIN route.param_types
                                   THEN Convert(route.param_types[nm], text(nm))
                                   ELSE StrVal(text(nm))]]

----------------------------------------------------------------------------
(* Route and Router (router.py) *)

\* RouteConfig(**kwargs)
RouteConfig(cache_ttl) ==
    [cache_ttl |-> cache_ttl, rate_limit |-> 0, background_tasks |-> "None", validate |-> TRUE]

\* Route.__init__
Route(path, methods, handler, config) ==
    [path |-> path, methods |-> methods, handler |-> handler, config |-> config,
     pattern |-> CompilePattern(path).pattern,
     param_types |-> CompilePattern(path).param_types]

None == [found |-> FALSE, handler |-> "", params |-> <<>>, config |-> RouteConfig(0)]

\* a scan that keeps looking after a match and returns the last one
RECURSIVE ScanLastMatch(_, _, _, _)
ScanLastMatch(rs, path, method, n) ==
    IF rs = <<>> THEN [result |-> None, matches |-> n]
    ELSE LET params == RouteMatch(rs[Len(rs)], path, method)
         IN IF params.ok
            THEN [result |-> [found |-> TRUE, handler |-> rs[Len(rs)].handler,
                              params |-> params.params, config |-> rs[Len(rs)].config],
                  matches |-> n + 1]
            ELSE ScanLastMatch(SubSeq(rs, 1, Len(rs) - 1), path, method, n + 1)

\* the scan of find_route (router.py 94-101): the result and the number of
\* Route.match evaluations it made
RECURSIVE Scan(_, _, _, _)
Scan(rs, path, method, n) ==
    IF rs = <<>> THEN [result |-> None, matches |-> n]
    ELSE LET params == RouteMatch(Head(rs), path, method)
         IN IF params.ok
            THEN [result |-> [found |-> TRUE, handler |-> Head(rs).handler,
                              params |-> params.params, config |-> Head(rs).config],
                  matches |-> n + 1]
            ELSE Scan(Tail(rs), path, method, n + 1)

\* a cache keyed by the path alone: the result is stored for every method
CacheAfterScanAnyMethod(cache, key, result) ==
    IF result.found
    THEN [k \in DOMAIN cache \cup {<<key[1], "GET">>, <<key[1], "POST">>} |->
             IF k[1] = key[1] THEN result ELSE cache[k]]
    ELSE cache

\* a cache that keeps the latest entry only
CacheAfterScanOnlyLast(cache, key, result) ==
    IF result.found THEN [k \in {key} |-> result] ELSE cache

\* which entry find_route stores after a scan: a positive result only
CacheAfterScan(cache, key, result) ==
    IF result.found
    THEN [k \in DOMAIN cache \cup {key} |-> IF k = key THEN result ELSE cache[k]]
    ELSE cache

\* Router.find_route(path, method): the result, the cache afterwards, whether
\* the cache answered, and the number of Route.match evaluations
FindRoute(rs, cache, path, method) ==
    LET cache_key == <<path, method>>
    IN IF cache_key \in DOMAIN cache
       THEN [result |-> cache[cache_key], cache |-> cache, hit |-> TRUE, matches |-> 0]
       ELSE LET sc == Scan(rs, path, method, 0)
            IN [result |-> sc.result,
                cache |-> CacheAfterScan(cache, cache_key, sc.result),
                hit |-> FALSE, matches |-> sc.matches]

\* add_route without the cache.clear()
RouterAddRouteKeepCache(rs, cache, path, methods, handler, cache_ttl) ==
    [routes |-> Append(rs, Route(path, methods, handler, RouteConfig(cache_ttl))),
     cache |-> cache]

\* Router.add_route: (routes, _route_cache) afterwards
RouterAddRoute(rs, cache, path, methods, handler, cache_ttl) ==
    [routes |-> Append(rs, Route(path, methods, handler, RouteConfig(cache_ttl))),
     cache |-> <<>>]

----------------------------------------------------------------------------
(* Failures.  HTTPException lives in exceptions.py; every other kind is a  *)
(* built-in exception class.                                               *)

JStr(text, arg) == [t |-> "str", text |-> text, arg |-> arg, n |-> 0]

JNum(n) == [t |-> "int", text |-> "", arg |-> <<>>, n |-> n]

Absent == [t |-> "absent", text |-> "", arg |-> <<>>, n |-> 0]

\* HTTPException(status_code, detail)
HTTPException(status_code, detail) ==
    [kind |-> "HTTPException", status_code |-> status_code, detail |-> detail, msg |-> detail]

\* an instance of a built-in exception class, str(exc) = msg
Raised(kind, msg) == [kind |-> kind, status_code |-> 0, detail |-> Absent, msg |-> msg]

NoExc == Raised("", Absent)

\* the classes an HTTPException is an instance of
HTTPExceptionBases == {"HTTPException", "Exception"}

\* a class user code derives from HTTPException: class Forbidden(HTTPException)
Forbidden(detail) ==
    [kind |-> "Forbidden", status_code |-> 403, detail |-> detail, msg |-> detail]

\* the classes a failure of some kind is an instance of
Bases(kind) ==
    IF kind = "HTTPException" THEN HTTPExceptionBases
    ELSE IF kind = "Forbidden" THEN {kind} \cup HTTPExceptionBases
    ELSE {kind, "Exception"}

----------------------------------------------------------------------------
(* Responses (response.py) *)

NoContent ==
    [error |-> Absent, status_code |-> Absent, message |-> Absent, result |-> Absent,
     data |-> Absent]

\* Response.__init__ : the class, the content, the status code, who made it
Response(cls, content, status_code) ==
    [cls |-> cls, content |-> content, status_code |-> status_code, by |-> "app"]

JSONResponse(content, status_code) == Response("JSONResponse", content, status_code)

NoResponse == Response("None", NoContent, 0)

\* a response object built by user code (a handler, a hook, an exception handler)
UserResponse(by, status_code) ==
    [cls |-> "Response", content |-> [NoContent EXCEPT !.data = JStr(by, <<>>)],
     status_code |-> status_code, by |-> by]

----------------------------------------------------------------------------
(* Exception handlers (app.py 39-56, 151-182) *)

ClassKey(cls) == [cls |-> cls, code |-> 0]

CodeKey(code) == [cls |-> "", code |-> code]

\* a mapping that drops a key it already holds and adds it again at the end
SetHandlerMoveToEnd(handlers, key, handler) ==
    Append(SelectSeq(handlers, LAMBDA e : e.key # key), [key |-> key, handler |-> handler])

\* dict.__setitem__ on the insertion-ordered exception_handlers mapping
SetHandler(handlers, key, handler) ==
    IF \E i \in 1..Len(handlers) : handlers[i].key = key
    THEN [i \in 1..Len(handlers) |->
             IF handlers[i].key = key THEN [key |-> key, handler |-> handler]
             ELSE handlers[i]]
    ELSE Append(handlers, [key |-> key, handler |-> handler])

\* FlashAPI._setup_default_handlers
DefaultHandlers ==
    SetHandler(SetHandler(SetHandler(<<>>,
        ClassKey("HTTPException"), "_handle_http_exception"),
        CodeKey(500), "_handle_500_exception"),
        CodeKey(404), "_handle_404_exception")

\* _handle_http_exception without the status_code argument of JSONResponse
HandleHttpExceptionStatus200(exc) ==
    JSONResponse([NoContent EXCEPT !.error = exc.detail, !.status_code = JNum(exc.status_code)],
                 200)

\* FlashAPI._handle_http_exception
HandleHttpException(exc) ==
    JSONResponse([NoContent EXCEPT !.error = exc.detail, !.status_code = JNum(exc.status_code)],
                 exc.status_code)

\* FlashAPI._handle_404_exception
Handle404Exception(exc) ==
    JSONResponse([NoContent EXCEPT !.error = JStr("Not Found", <<>>), !.message = exc.msg], 404)

\* FlashAPI._handle_500_exception
Handle500Exception(exc) ==
    JSONResponse([NoContent EXCEPT !.error = JStr("Internal Server Error", <<>>)], 500)

\* the default error response of _handle_exception (app.py 160-164)
DefaultErrorResponse(exc) ==
    JSONResponse([NoContent EXCEPT !.error = JStr("Internal Server Error", <<>>),
                                   !.message = exc.msg], 500)

Returned(response) == [raised |-> FALSE, response |-> response, exc |-> NoExc]

Threw(exc) == [raised |-> TRUE, response |-> NoResponse, exc |-> exc]

\* calling a registered exception handler; a user handler returns its own
\* response or raises, as its code decides (fails)
CallHandler(handler, exc, fails) ==
    CASE handler = "_handle_http_exception" -> Returned(HandleHttpException(exc))
      [] handler = "_handle_404_exception" -> Returned(Handle404Exception(exc))
      [] handler = "_handle_500_exception" -> Returned(Handle500Exception(exc))
      [] OTHER -> IF fails THEN Threw(Raised("ValueError", JStr(handler, <<>>)))
                  ELSE Returned(UserResponse(handler, 418))

\* isinstance(exc, exc_class) or exc_class == type(exc) : isinstance raises
\* TypeError when its second argument is not a class (the keys 500 and 404)
IsInstanceRaises(key) == key.cls = ""

KeyMatches(exc, key) == key.cls \in Bases(exc.kind) \/ key.cls = exc.kind

IsInstanceError ==
    Raised("TypeError", JStr("isinstance() arg 2 must be a type", <<>>))

\* FlashAPI._handle_exception: walks exception_handlers in insertion order
RECURSIVE HandleException(_, _, _)
HandleException(handlers, exc, fails) ==
    IF handlers = <<>> THEN Returned(DefaultErrorResponse(exc))
    ELSE IF IsInstanceRaises(Head(handlers).key) THEN Threw(IsInstanceError)
    ELSE IF KeyMatches(exc, Head(handlers).key)
         THEN CallHandler(Head(handlers).handler, exc, fails)
    ELSE HandleException(Tail(handlers), exc, fails)

----------------------------------------------------------------------------
(* Inputs: the routes, handlers, interceptors and requests of the model *)

Slash == "/"

P_a_fixed == <<"/", "a", "/", "f", "i", "x", "e", "d">>

P_items_42 == <<"/", "i", "t", "e", "m", "s", "/", "4", "2">>

P_items_abc == <<"/", "i", "t", "e", "m", "s", "/", "a", "b", "c">>

P_nope == <<"/", "n", "o", "p", "e">>

Paths == {P_a_fixed, P_items_42, P_items_abc, P_nope}

Methods == {"GET", "POST"}

\* /a/{x}
T_a_x == Lits(<<"/", "a", "/">>) \o <<Untyped("x")>>

\* /a/fixed
T_a_fixed == Lits(P_a_fixed)

\* /items/{id:int}
T_items_id == Lits(<<"/", "i", "t", "e", "m", "s", "/">>) \o <<Typed("id", "int")>>

\* the add_route calls of the model: path, methods, handler, cache_ttl
R_a_x == [path |-> T_a_x, methods |-> <<"GET">>, handler |-> "h_x", cache_ttl |-> 0]

R_a_fixed == [path |-> T_a_fixed, methods |-> <<"GET">>, handler |-> "h_fixed", cache_ttl |-> 60]

R_items_id ==
    [path |-> T_items_id, methods |-> <<"GET", "POST">>, handler |-> "h_item", cache_ttl |-> 0]

RouteChoices == {R_a_x, R_a_fixed, R_items_id}

\* the routes the application registers at startup, in this order
AppRoutes == <<R_a_fixed, R_items_id, R_a_x>>

\* the requests the transport delivers: (path, method)
RequestKeys ==
    {<<P_a_fixed, "GET">>, <<P_items_42, "GET">>, <<P_items_42, "POST">>,
     <<P_items_abc, "GET">>, <<P_nope, "GET">>}

\* inspect.signature(handler): parameter names and annotations
Signature(handler) ==
    CASE handler = "h_x" -> <<[name |-> "x", annotation |-> ""]>>
      [] handler = "h_fixed" -> <<>>
      [] handler = "h_item" -> <<[name |-> "req", annotation |-> "Request"],
                                 [name |-> "id", annotation |-> ""]>>
      [] handler = "h_req" -> <<[name |-> "request", annotation |-> ""],
                                [name |-> "q", annotation |-> ""]>>
      [] handler = "h_mixed" -> <<[name |-> "request", annotation |-> "Request"],
                                  [name |-> "r", annotation |-> "Request"],
                                  [name |-> "db", annotation |-> "Session"],
                                  [name |-> "id", annotation |-> "int"],
                                  [name |-> "page", annotation |-> ""]>>
      [] OTHER -> <<>>

\* asyncio.iscoroutinefunction(handler)
IsCoroutineFunction(handler) == handler # "h_fixed"

\* the interceptor classes the application may add.  before / after say what
\* the hook does when it is called: return its argument ("same"), return
\* nothing ("none"), return another object ("new"), raise an HTTPException
\* ("raise_http") or another failure ("raise"); "absent" is a class without
\* the hook (hasattr is false)
MiddlewareChoices ==
    { [name |-> "Timing", before |-> "same", after |-> "same"],
      [name |-> "Rewrite", before |-> "new", after |-> "new"],
      [name |-> "Quiet", before |-> "none", after |-> "none"],
      [name |-> "Auth", before |-> "raise_http", after |-> "absent"],
      [name |-> "Faulty", before |-> "raise", after |-> "same"],
      [name |-> "BadPost", before |-> "absent", after |-> "raise"] }

\* hasattr(middleware, 'before_request') and hasattr(middleware, 'after_request')
HasBefore(m) == m.before # "absent"

HasAfter(m) == m.after # "absent"

\* the (status code, detail) pairs user code raises HTTPException with
HttpFailures == {<<403, JStr("forbidden", <<>>)>>, <<500, JStr("boom", <<>>)>>}

\* what a handler does when it is called: return a value or raise
ReturnTypes == {"Response", "dict", "list", "str", "int", "object"}

HandlerOutcomes ==
    {[raises |-> FALSE, type |-> ty, exc |-> NoExc] : ty \in ReturnTypes}
    \cup {[raises |-> TRUE, type |-> "", exc |-> HTTPException(f[1], f[2])] :
              f \in HttpFailures}
    \cup {[raises |-> TRUE, type |-> "", exc |-> Raised("ValueError", JStr("x", <<>>))]}

\* the discriminators user code registers handlers for
UserKeys == {ClassKey("HTTPException"), ClassKey("ValueError"), ClassKey("Exception")}

\* the number of timings __call__ keeps
KeepTimings == 1000

----------------------------------------------------------------------------
(* Dispatcher helpers (app.py 80-149, response.py) *)

\* Request(scope, receive): obj names the request object
Request(path, method) == [path |-> path, method |-> method, path_params |-> <<>>, obj |-> "r0"]

NoRequest == [path |-> <<>>, method |-> "", path_params |-> <<>>, obj |-> ""]

PathArg(v) == [from |-> "path", v |-> v]

RequestArg == [from |-> "request", v |-> StrVal(<<>>)]

\* a binding that looks at the name request before the path parameters
PrepareHandlerArgsRequestFirst(handler, path_params) ==
    LET sig == Signature(handler)
        bound == {i \in 1..Len(sig) :
                     \/ sig[i].name \in DOMAIN path_params
                     \/ sig[i].name = "request"
                     \/ sig[i].annotation = "Request"}
    IN [nm \in {sig[i].name : i \in bound} |->
           IF nm = "request" \/ nm \notin DOMAIN path_params THEN RequestArg
           ELSE PathArg(path_params[nm])]

\* FlashAPI._prepare_handler_args
PrepareHandlerArgs(handler, path_params) ==
    LET sig == Signature(handler)
        bound == {i \in 1..Len(sig) :
                     \/ sig[i].name \in DOMAIN path_params
                     \/ sig[i].name = "request"
                     \/ sig[i].annotation = "Request"}
    IN [nm \in {sig[i].name : i \in bound} |->
           IF nm \in DOMAIN path_params THEN PathArg(path_params[nm]) ELSE RequestArg]

\* the parameters of the handler that the call handler(**handler_args) leaves
\* without a value
Unbound(handler, handler_args) ==
    {Signature(handler)[i].name : i \in 1..Len(Signature(handler))} \ DOMAIN handler_args

\* FlashAPI._create_response; app.py imports Response and JSONResponse only,
\* so the name TextResponse is not defined where the str branch uses it
CreateResponse(result) ==
    CASE result.type = "Response" -> Returned(UserResponse("handler", 201))
      [] result.type \in {"dict", "list"} ->
            Returned(JSONResponse([NoContent EXCEPT !.data = JStr(result.type, <<>>)], 200))
      [] result.type = "str" ->
            Threw(Raised("NameError", JStr("name 'TextResponse' is not defined", <<>>)))
      [] OTHER ->
            Returned(JSONResponse([NoContent EXCEPT !.result = JStr(result.type, <<>>)], 200))

\* json.dumps(content) of JSONResponse._encode_content succeeds
Serializable(response) ==
    ~(response.cls = "JSONResponse" /\ response.content.result = JStr("object", <<>>))

----------------------------------------------------------------------------
(* State *)

VARIABLES
    routes,             \* Router.routes
    route_cache,        \* Router._route_cache
    middleware,         \* FlashAPI.middleware
    exception_handlers, \* FlashAPI.exception_handlers
    request_times,      \* FlashAPI.request_times
    served,             \* number of requests received so far
    rq,                 \* the request being dispatched
    last,               \* the latest call on the router
    prev,               \* the call on the router before it
    tasks               \* the __call__ coroutines running side by side

vars == <<routes, route_cache, middleware, exception_handlers, request_times,
          served, rq, last, prev, tasks>>

NoKey == <<<<>>, "">>

NoEvent == [op |-> "", key |-> NoKey, result |-> None, hit |-> FALSE, matches |-> 0,
            dropped |-> {}, size |-> 0, exc_class |-> CodeKey(0), handler |-> ""]

FindEvent(fr, path, method) ==
    [op |-> "find", key |-> <<path, method>>, result |-> fr.result, hit |-> fr.hit,
     matches |-> fr.matches, dropped |-> {}, size |-> Len(routes),
     exc_class |-> CodeKey(0), handler |-> ""]

AddEvent == [op |-> "add", key |-> NoKey, result |-> None, hit |-> FALSE, matches |-> 0,
             dropped |-> DOMAIN route_cache, size |-> Len(routes) + 1,
             exc_class |-> CodeKey(0), handler |-> ""]

Idle ==
    [pc |-> "idle", i |-> 0, request |-> NoRequest, response |-> NoResponse,
     resolved |-> NoResponse, result |-> [type |-> ""], exc |-> NoExc, escaped |-> NoExc,
     handler |-> "", handler_args |-> <<>>, origin |-> "", hook_failed |-> FALSE,
     resolver_failed |-> FALSE, post_failed |-> FALSE, lookups |-> 0,
     preLog |-> <<>>, preSeen |-> <<>>, postLog |-> <<>>, postSeen |-> <<>>,
     handlerCalls |-> 0,
     emitted |-> <<>>]

Init ==
    /\ routes = <<>>
    /\ route_cache = <<>>
    /\ middleware = <<>>
    /\ exception_handlers = DefaultHandlers
    /\ request_times = <<>>
    /\ served = 0
    /\ rq = Idle
    /\ last = NoEvent
    /\ prev = NoEvent
    /\ tasks = <<>>

Startup == served = 0 /\ rq.pc = "idle"

----------------------------------------------------------------------------
(* Registration (app.py 45-56) *)

\* FlashAPI.add_route -> Router.add_route
AddRoute(c) ==
    /\ Startup
    /\ Len(routes) < MaxRoutes
    /\ Len(routes) < Len(AppRoutes)
    /\ c = AppRoutes[Len(routes) + 1]
    /\ LET r == RouterAddRoute(routes, route_cache, c.path, c.methods, c.handler, c.cache_ttl)
       IN /\ routes' = r.routes
          /\ route_cache' = r.cache
    /\ last' = AddEvent
    /\ prev' = last
    /\ UNCHANGED <<tasks, middleware, exception_handlers, request_times, served, rq>>

\* FlashAPI.add_middleware
AddMiddleware(m) ==
    /\ Startup
    /\ Len(middleware) < MaxMiddleware
    /\ middleware' = Append(middleware, m)
    /\ UNCHANGED <<tasks, routes, route_cache, exception_handlers, request_times, served, rq, last, prev>>

\* the discriminators whose handler user code has set
UserHandled(handlers) ==
    {i \in 1..Len(handlers) : handlers[i].handler \notin
        {"_handle_http_exception", "_handle_500_exception", "_handle_404_exception"}}

\* FlashAPI.add_exception_handler, called by user code
AddExceptionHandler(key, handler) ==
    /\ Startup
    /\ Cardinality(UserHandled(exception_handlers)) < MaxUserHandlers
    /\ exception_handlers' = SetHandler(exception_handlers, key, handler)
    /\ UNCHANGED <<tasks, routes, route_cache, middleware, request_times, served, rq, last, prev>>

----------------------------------------------------------------------------
(* One request through FlashAPI.__call__ and _handle_http_request *)

\* a dispatcher that looks the route up before its pre-processing loop is done
AfterPreSkip(i) == "route"

\* where the pre-processing loop stands after the i-th interceptor
AfterPre(i) == IF i >= Len(middleware) THEN "route" ELSE "pre"

\* where the post-processing loop stands once interceptor i has been passed
\* (the loop walks reversed(self.middleware))
AfterPost(i) == IF i <= 1 THEN "send" ELSE "post"

\* a post-processing loop without reversed()
PostOrderForward(mws) == mws

\* the order in which the post-processing loop visits the interceptors
PostOrder(mws) == Reverse(mws)

\* __call__ with an http scope: Request(scope, receive), response = None
Receive(path, method) ==
    /\ rq.pc = "idle"
    /\ served < MaxRequests
    /\ served' = served + 1
    /\ rq' = [Idle EXCEPT !.pc = AfterPre(0), !.i = 1, !.request = Request(path, method)]
    /\ UNCHANGED <<tasks, routes, route_cache, middleware, exception_handlers, request_times,
                   last, prev>>

\* what a hook hands back: None, or an object
Nothing == [some |-> FALSE, v |-> ""]

Just(v) == [some |-> TRUE, v |-> v]

\* Middleware.before_request of an interceptor that returns: the request it
\* was given, another request, or None
BeforeRequest(m, obj) ==
    CASE m.before = "same" -> Just(obj)
      [] m.before = "new" -> Just(m.name)
      [] OTHER -> Nothing

\* Middleware.after_request of an interceptor that returns: the response it
\* was given, another response, or None
AfterRequest(m, response) ==
    CASE m.after = "same" -> Just(response)
      [] m.after = "new" -> Just(UserResponse(m.name, response.status_code))
      [] OTHER -> Nothing

\* a loop that drops what the hook returned
OrElseWorking(returned, working) == working

\* "returned or working" of app.py 89 and 119; Request and Response define
\* neither __bool__ nor __len__, so only None is false
OrElse(returned, working) == IF returned.some THEN returned.v ELSE working

\* one turn of the loop of app.py 87-89
PreHook ==
    /\ rq.pc = "pre"
    /\ LET m == middleware[rq.i]
           outcome == m.before
       IN IF ~HasBefore(m)
          THEN rq' = [rq EXCEPT !.pc = AfterPre(rq.i), !.i = rq.i + 1]
          ELSE LET called == [rq EXCEPT !.preLog = Append(rq.preLog, m.name),
                                        !.preSeen = Append(rq.preSeen, rq.request.obj)]
               IN CASE outcome \in {"same", "none", "new"} ->
                         rq' = [called EXCEPT !.pc = AfterPre(rq.i), !.i = rq.i + 1,
                                              !.request.obj =
                                                  OrElse(BeforeRequest(m, rq.request.obj),
                                                         rq.request.obj)]
                    [] outcome = "raise_http" ->
                         rq' = [called EXCEPT !.pc = "except", !.origin = "pre",
                                              !.hook_failed = TRUE,
                                              !.exc = HTTPException(403, JStr("forbidden", <<>>))]
                    [] OTHER ->
                         rq' = [called EXCEPT !.pc = "except", !.origin = "pre",
                                              !.hook_failed = TRUE,
                                              !.exc = Raised("ValueError", JStr("x", <<>>))]
    /\ UNCHANGED <<tasks, routes, route_cache, middleware, exception_handlers, request_times,
                   served, last, prev>>

\* the failure of app.py 94 with a message that does not name the path
RouteNotFoundNoPath(path) == HTTPException(404, JStr("Route not found", <<>>))

\* the failure raised at app.py 94
RouteNotFound(path) == HTTPException(404, JStr("Route {path} not found", path))

\* app.py 92-100: route matching and argument binding
RouteRequest ==
    /\ rq.pc = "route"
    /\ LET fr == FindRoute(routes, route_cache, rq.request.path, rq.request.method)
           looked == [rq EXCEPT !.lookups = rq.lookups + 1]
       IN /\ route_cache' = fr.cache
          /\ last' = FindEvent(fr, rq.request.path, rq.request.method)
          /\ prev' = last
          /\ IF ~fr.result.found
             THEN rq' = [looked EXCEPT !.pc = "except", !.origin = "route",
                                       !.exc = RouteNotFound(rq.request.path)]
             ELSE rq' = [looked EXCEPT !.pc = "invoke",
                                   !.request.path_params = fr.result.params,
                                   !.handler = fr.result.handler,
                                   !.handler_args =
                                       PrepareHandlerArgs(fr.result.handler, fr.result.params)]
    /\ UNCHANGED <<tasks, routes, middleware, exception_handlers, request_times, served>>

\* app.py 102-108: the handler is called; run_in_executor takes no keyword
\* arguments, and a call that leaves a parameter without a value fails
Invoke(outcome) ==
    /\ rq.pc = "invoke"
    /\ IF ~IsCoroutineFunction(rq.handler) /\ DOMAIN rq.handler_args # {}
       THEN rq' = [rq EXCEPT !.pc = "except", !.origin = "call",
                             !.exc = Raised("TypeError", JStr("run_in_executor", <<>>))]
       ELSE IF Unbound(rq.handler, rq.handler_args) # {}
       THEN rq' = [rq EXCEPT !.pc = "except", !.origin = "call",
                             !.exc = Raised("TypeError", JStr("missing argument", <<>>))]
       ELSE IF outcome.raises
       THEN rq' = [rq EXCEPT !.pc = "except", !.origin = "handler",
                             !.handlerCalls = rq.handlerCalls + 1, !.exc = outcome.exc]
       ELSE rq' = [rq EXCEPT !.pc = "normalize", !.handlerCalls = rq.handlerCalls + 1,
                             !.result = [type |-> outcome.type]]
    /\ UNCHANGED <<tasks, routes, route_cache, middleware, exception_handlers, request_times,
                   served, last, prev>>

\* where the request goes once it has a response: app.py 116-121
ToPost(r, response) ==
    [r EXCEPT !.pc = AfterPost(Len(middleware) + 1), !.i = Len(middleware),
              !.response = response, !.resolved = response]

\* app.py 111
Normalize ==
    /\ rq.pc = "normalize"
    /\ LET cr == CreateResponse(rq.result)
       IN IF cr.raised
          THEN rq' = [rq EXCEPT !.pc = "except", !.origin = "normalize", !.exc = cr.exc]
          ELSE rq' = ToPost(rq, cr.response)
    /\ UNCHANGED <<tasks, routes, route_cache, middleware, exception_handlers, request_times,
                   served, last, prev>>

\* app.py 113-114: a failure raised by _handle_exception leaves
\* _handle_http_request
Except(fails) ==
    /\ rq.pc = "except"
    /\ LET he == HandleException(exception_handlers, rq.exc, fails)
       IN IF he.raised
          THEN rq' = [rq EXCEPT !.pc = "crashed", !.escaped = he.exc,
                                !.resolver_failed = (he.exc # IsInstanceError)]
          ELSE rq' = ToPost(rq, he.response)
    /\ UNCHANGED <<tasks, routes, route_cache, middleware, exception_handlers, request_times,
                   served, last, prev>>

\* one turn of the loop of app.py 117-119
PostHook ==
    /\ rq.pc = "post"
    /\ LET m == PostOrder(middleware)[Len(middleware) + 1 - rq.i]
           outcome == m.after
       IN IF ~HasAfter(m)
          THEN rq' = [rq EXCEPT !.pc = AfterPost(rq.i), !.i = rq.i - 1]
          ELSE LET called == [rq EXCEPT !.postLog = Append(rq.postLog, m.name),
                                        !.postSeen = Append(rq.postSeen, rq.response)]
               IN CASE outcome \in {"same", "none", "new"} ->
                         rq' = [called EXCEPT !.pc = AfterPost(rq.i), !.i = rq.i - 1,
                                              !.response =
                                                  OrElse(AfterRequest(m, rq.response),
                                                         rq.response)]
                    [] OTHER ->
                         rq' = [called EXCEPT !.pc = "crashed", !.hook_failed = TRUE,
                                              !.post_failed = TRUE,
                                              !.escaped = Raised("ValueError", JStr("x", <<>>))]
    /\ UNCHANGED <<tasks, routes, route_cache, middleware, exception_handlers, request_times,
                   served, last, prev>>

\* app.py 121: Response.__call__ encodes the body, then sends start and body
Send ==
    /\ rq.pc = "send"
    /\ IF Serializable(rq.response)
       THEN rq' = [rq EXCEPT !.pc = "sent", !.emitted = Append(rq.emitted, rq.response)]
       ELSE rq' = [rq EXCEPT !.pc = "crashed",
                             !.escaped = Raised("TypeError", JStr("not JSON serializable", <<>>))]
    /\ UNCHANGED <<tasks, routes, route_cache, middleware, exception_handlers, request_times,
                   served, last, prev>>

\* a list of timings that is never trimmed
RecordTimeKeepAll(times, t) == Append(times, t)

\* app.py 73-78 once _handle_http_request has returned
RecordTime(times, t) ==
    LET appended == Append(times, t)
    IN IF Len(appended) > KeepTimings THEN Tail(appended) ELSE appended

Finish ==
    /\ rq.pc = "sent"
    /\ request_times' = RecordTime(request_times, served)
    /\ rq' = Idle
    /\ UNCHANGED <<tasks, routes, route_cache, middleware, exception_handlers, served,
                   last, prev>>

\* a failure that left _handle_http_request leaves __call__ as well
Abort ==
    /\ rq.pc = "crashed"
    /\ rq' = Idle
    /\ UNCHANGED <<tasks, routes, route_cache, middleware, exception_handlers, request_times,
                   served, last, prev>>

Next ==
    \/ \E c \in RouteChoices : AddRoute(c)
    \/ \E m \in MiddlewareChoices : AddMiddleware(m)
    \/ \E key \in UserKeys : AddExceptionHandler(key, "user_handler")
    \/ \E key \in RequestKeys : Receive(key[1], key[2])
    \/ PreHook
    \/ RouteRequest
    \/ \E outcome \in HandlerOutcomes : Invoke(outcome)
    \/ Normalize
    \/ \E fails \in BOOLEAN : Except(fails)
    \/ PostHook
    \/ Send
    \/ Finish
    \/ Abort

Spec == Init /\ [][Next]_vars

----------------------------------------------------------------------------
(* The router on its own: add_route and find_route called in any order *)

RouterAddRouteCall(c) ==
    /\ Len(routes) < MaxRoutes
    /\ LET r == RouterAddRoute(routes, route_cache, c.path, c.methods, c.handler, c.cache_ttl)
       IN /\ routes' = r.routes
          /\ route_cache' = r.cache
    /\ last' = AddEvent
    /\ prev' = last
    /\ UNCHANGED <<tasks, middleware, exception_handlers, request_times, served, rq>>

RouterFindRouteCall(path, method) ==
    /\ LET fr == FindRoute(routes, route_cache, path, method)
       IN /\ route_cache' = fr.cache
          /\ last' = FindEvent(fr, path, method)
    /\ prev' = last
    /\ UNCHANGED <<tasks, routes, middleware, exception_handlers, request_times, served, rq>>

NextRouter ==
    \/ \E c \in RouteChoices : RouterAddRouteCall(c)
    \/ \E path \in Paths, method \in Methods : RouterFindRouteCall(path, method)

SpecRouter == Init /\ [][NextRouter]_vars

----------------------------------------------------------------------------
(* The exception handlers on their own: add_exception_handler and
   _handle_exception called in any order *)

\* the discriminators handlers are registered for
ResolverKeys ==
    {ClassKey("HTTPException"), CodeKey(500), CodeKey(404),
     ClassKey("Forbidden"), ClassKey("ValueError")}

\* the functions user code registers
ResolverHandlers == {"user_handler", "other_handler"}

\* the failures handed to _handle_exception
ResolverFailures ==
    {HTTPException(404, JStr("gone", <<>>)), Forbidden(JStr("forbidden", <<>>)),
     Raised("ValueError", JStr("x", <<>>)), Raised("KeyError", JStr("k", <<>>))}

HandlerEvent(key, handler) ==
    [NoEvent EXCEPT !.op = "handler", !.exc_class = key, !.handler = handler,
                    !.size = Len(exception_handlers)]

ExceptionHandlerCall(key, handler) ==
    /\ exception_handlers' = SetHandler(exception_handlers, key, handler)
    /\ last' = HandlerEvent(key, handler)
    /\ rq' = Idle
    /\ UNCHANGED <<tasks, routes, route_cache, middleware, request_times, served, prev>>

HandleExceptionCall(exc, fails) ==
    /\ LET he == HandleException(exception_handlers, exc, fails)
       IN rq' = [Idle EXCEPT !.origin = "resolve", !.exc = exc,
                             !.resolved = he.response, !.escaped = he.exc,
                             !.resolver_failed = (he.raised /\ he.exc # IsInstanceError)]
    /\ UNCHANGED <<tasks, routes, route_cache, middleware, exception_handlers, request_times,
                   served, last, prev>>

NextResolver ==
    \/ \E key \in ResolverKeys, handler \in ResolverHandlers :
           ExceptionHandlerCall(key, handler)
    \/ \E exc \in ResolverFailures, fails \in BOOLEAN : HandleExceptionCall(exc, fails)

SpecResolver == Init /\ [][NextResolver]_vars

----------------------------------------------------------------------------
(* One route on its own: Route(path, ...) built from a template, and
   Route.match called once with the path and method of a request *)

\* /items/
Pre_items == <<"/", "i", "t", "e", "m", "s", "/">>

\* /s/{flag:bool}
T_s_flag == Lits(<<"/", "s", "/">>) \o <<Typed("flag", "bool")>>

\* /u/{n}/p/{m}
T_u_n_p_m ==
    Lits(<<"/", "u", "/">>) \o <<Untyped("n")>> \o Lits(<<"/", "p", "/">>) \o <<Untyped("m")>>

\* /c+/{x}
T_c_plus == Lits(<<"/", "c", "+", "/">>) \o <<Untyped("x")>>

\* /v.1/{x}
T_v_dot == Lits(<<"/", "v", ".", "1", "/">>) \o <<Untyped("x")>>

MatchTemplates == {T_items_id, T_s_flag, T_a_x, T_u_n_p_m, T_c_plus, T_v_dot}

\* the characters that follow a prefix in the paths of the model
TailChars == {"4", "2", "a", "/", NL}

MaxTail == 2

Tails == UNION {[1..n -> TailChars] : n \in 0..MaxTail}

FlagTexts ==
    {<<"T", "r", "u", "e">>, <<"t", "r", "u", "e">>, <<"1">>, <<"y", "e", "s">>,
     <<"Y", "E", "S">>, <<"0">>, <<"n", "o">>, <<"m", "a", "y", "b", "e">>,
     <<"y", "e", "s", NL>>, <<"o", "n">>, <<"t", "r", "u", "e", "1">>}

Prefixes ==
    {Pre_items, <<"/", "a", "/">>, <<"/", "s", "/">>, <<"/", "c", "+", "/">>,
     <<"/", "c", "c", "/">>, <<"/", "v", ".", "1", "/">>, <<"/", "v", "x", "1", "/">>}

Names_u == {<<>>, <<"4">>, <<"a">>, <<"4", "a">>}

ExtraPaths ==
    {P_items_42, P_items_abc, P_items_42 \o <<NL>>, <<"/", "z">> \o P_items_42,
     <<"/", "a", "/", "4", "/", "2">>, <<"/", "z", "/", "a", "/", "4">>, <<"/", "a">>,
     <<"/", "z", "/", "u", "/", "4", "/", "p", "/", "a">>,
     <<"/", "u", "/", "4", "/", "p", "/", "a", "/", "z">>,
     <<"/", "u", "/", "4", "/", "p">>, <<"/", "u", "/", "4", "/", "q", "/", "a">>}

MatchPaths ==
    {p \o t : p \in Prefixes, t \in Tails \cup FlagTexts}
    \cup {<<"/", "u", "/">> \o n \o <<"/", "p", "/">> \o m : n \in Names_u, m \in Names_u}
    \cup ExtraPaths

InitMatch ==
    /\ routes \in {<<Route(t, <<"GET">>, "h", RouteConfig(0))>> : t \in MatchTemplates}
    /\ route_cache = <<>>
    /\ middleware = <<>>
    /\ exception_handlers = DefaultHandlers
    /\ request_times = <<>>
    /\ served = 0
    /\ rq \in {[Idle EXCEPT !.request = Request(path, method)] :
                  path \in MatchPaths, method \in Methods}
    /\ last = NoEvent
    /\ prev = NoEvent
    /\ tasks = <<>>

MatchEvent(m, path, method) ==
    [NoEvent EXCEPT !.op = "match", !.key = <<path, method>>,
                    !.result = [None EXCEPT !.found = m.ok, !.params = m.params]]

RouteMatchCall ==
    /\ last.op = ""
    /\ last' = MatchEvent(RouteMatch(routes[1], rq.request.path, rq.request.method),
                          rq.request.path, rq.request.method)
    /\ UNCHANGED <<tasks, routes, route_cache, middleware, exception_handlers, request_times,
                   served, rq, prev>>

NextMatch == RouteMatchCall

SpecMatch == InitMatch /\ [][NextMatch]_vars

----------------------------------------------------------------------------
(* Argument binding on its own: _prepare_handler_args called once with a
   handler and the path parameters of a request *)

BindHandlers == {"h_x", "h_fixed", "h_item", "h_req", "h_mixed"}

BindNames == {"request", "id", "r", "q"}

BindValues == {StrVal(<<"4">>), IntVal(4)}

BindParams == UNION {[S -> BindValues] : S \in SUBSET BindNames}

InitBind ==
    /\ routes = <<>>
    /\ route_cache = <<>>
    /\ middleware = <<>>
    /\ exception_handlers = DefaultHandlers
    /\ request_times = <<>>
    /\ served = 0
    /\ rq \in {[Idle EXCEPT !.handler = h,
                            !.request = [Request(P_nope, "GET") EXCEPT !.path_params = pp]] :
                  h \in BindHandlers, pp \in BindParams}
    /\ last = NoEvent
    /\ prev = NoEvent
    /\ tasks = <<>>

PrepareHandlerArgsCall ==
    /\ rq.origin = ""
    /\ rq' = [rq EXCEPT !.origin = "bind",
                        !.handler_args = PrepareHandlerArgs(rq.handler, rq.request.path_params)]
    /\ UNCHANGED <<tasks, routes, route_cache, middleware, exception_handlers, request_times,
                   served, last, prev>>

NextBind == PrepareHandlerArgsCall

SpecBind == InitBind /\ [][NextBind]_vars

----------------------------------------------------------------------------
(* Concurrent requests.  The event loop runs one __call__ coroutine at a
   time and switches between them where a coroutine is suspended: inside the
   handler it awaits, and inside response(scope, receive, send).  The route
   table is fixed and no interceptor is installed.  find_route returns the
   tuple it keeps in the cache, so request.path_params of app.py 97 is the
   dictionary of the cache entry: a request holds the key of that entry. *)

MaxTasks == 2

RECURSIVE AddAll(_, _)
AddAll(r, cs) ==
    IF cs = <<>> THEN r
    ELSE AddAll(RouterAddRoute(r.routes, r.cache, Head(cs).path, Head(cs).methods,
                               Head(cs).handler, Head(cs).cache_ttl),
                Tail(cs))

\* the routes after the add_route calls of the application
FixedRoutes == AddAll([routes |-> <<>>, cache |-> <<>>], AppRoutes).routes

P_a_4 == <<"/", "a", "/", "4">>

HttpScope(path, method) == [type |-> "http", path |-> path, method |-> method]

LifespanScope == [type |-> "lifespan", path |-> <<>>, method |-> ""]

TaskScopes ==
    {HttpScope(P_items_42, "GET"), HttpScope(P_a_4, "GET"), HttpScope(P_nope, "GET"),
     LifespanScope}

\* request_times after 999 requests
OldTimings == [i \in 1..(KeepTimings - 1) |-> 0]

NewTask(scope) ==
    [scope |-> scope, pc |-> "called", handler |-> "", bag |-> NoKey, params |-> <<>>,
     handler_args |-> <<>>, response |-> NoResponse]

InitTasks ==
    /\ routes = FixedRoutes
    /\ route_cache = <<>>
    /\ middleware = <<>>
    /\ exception_handlers = DefaultHandlers
    /\ request_times \in {<<>>, OldTimings}
    /\ served = 0
    /\ rq = Idle
    /\ last = NoEvent
    /\ prev = NoEvent
    /\ tasks = <<>>

\* the server calls app(scope, receive, send)
Call(scope) ==
    /\ Len(tasks) < MaxTasks
    /\ tasks' = Append(tasks, NewTask(scope))
    /\ UNCHANGED <<routes, route_cache, middleware, exception_handlers, request_times,
                   served, rq, last, prev>>

\* __call__ up to its first suspension: app.py 70 for a scope that is not
\* http; app.py 71-72 and 82-108 up to the await of the handler, or, with no
\* route, 94 and 113-121 up to the await of send
Begin(t) ==
    /\ tasks[t].pc = "called"
    /\ IF tasks[t].scope.type # "http"
       THEN /\ tasks' = [tasks EXCEPT ![t].pc = "returned"]
            /\ UNCHANGED route_cache
       ELSE LET path == tasks[t].scope.path
                method == tasks[t].scope.method
                fr == FindRoute(routes, route_cache, path, method)
                he == HandleException(exception_handlers, RouteNotFound(path), FALSE)
            IN /\ route_cache' = fr.cache
               /\ IF fr.result.found
                  THEN tasks' = [tasks EXCEPT
                           ![t].pc = "handling",
                           ![t].handler = fr.result.handler,
                           ![t].bag = <<path, method>>,
                           ![t].params = fr.result.params,
                           ![t].handler_args =
                               PrepareHandlerArgs(fr.result.handler, fr.result.params)]
                  ELSE tasks' = [tasks EXCEPT ![t].pc = "sending",
                                              ![t].response = he.response]
    /\ UNCHANGED <<routes, middleware, exception_handlers, request_times, served, rq,
                   last, prev>>

\* request.path_params[name] = "" for every name, done by a handler on the
\* request it was given
Scrub(bag) == [n \in DOMAIN bag |-> StrVal(<<>>)]

\* the handler runs on from its suspension and returns a dict, having
\* written to request.path_params or not; app.py 111-121 up to the await of
\* send
Resume(t, writes) ==
    /\ tasks[t].pc = "handling"
    /\ route_cache' = IF writes
                      THEN [route_cache EXCEPT ![tasks[t].bag].params = Scrub(@)]
                      ELSE route_cache
    /\ tasks' = [tasks EXCEPT ![t].pc = "sending",
                              ![t].response = CreateResponse([type |-> "dict"]).response]
    /\ UNCHANGED <<routes, middleware, exception_handlers, request_times, served, rq,
                   last, prev>>

\* send is done and _handle_http_request returns: app.py 73-78
Return(t) ==
    /\ tasks[t].pc = "sending"
    /\ request_times' = RecordTime(request_times, t)
    /\ tasks' = [tasks EXCEPT ![t].pc = "returned"]
    /\ UNCHANGED <<routes, route_cache, middleware, exception_handlers, served, rq,
                   last, prev>>

NextTasks ==
    \/ \E scope \in TaskScopes : Call(scope)
    \/ \E t \in DOMAIN tasks : Begin(t)
    \/ \E t \in DOMAIN tasks, writes \in BOOLEAN : Resume(t, writes)
    \/ \E t \in DOMAIN tasks : Return(t)

SpecTasks == InitTasks /\ [][NextTasks]_vars

----------------------------------------------------------------------------
(* Claims about the router, checked under SpecRouter *)

\* the indices of the routes that match a key
Matching(key) == {i \in 1..Len(routes) : RouteMatch(routes[i], key[1], key[2]).ok}

\* C5: a cold find_route returns the handler, parameters and config of the
\* matching route with the smallest insertion index, and no match when no
\* route matches.
C5_FirstRegisteredMatchWins ==
    (last.op = "find" /\ ~last.hit) =>
        IF Matching(last.key) = {} THEN ~last.result.found
        ELSE LET r == routes[Min(Matching(last.key))]
             IN /\ last.result.found
                /\ last.result.handler = r.handler
                /\ last.result.config = r.config
                /\ last.result.params = RouteMatch(r, last.key[1], last.key[2]).params

\* C5 witness: /a/{x} registered before /a/fixed, and a cold lookup of
\* /a/fixed resolved to the handler of /a/{x}
C5_Witness ==
    /\ last.op = "find" /\ ~last.hit
    /\ last.key = <<P_a_fixed, "GET">>
    /\ Len(routes) = 2
    /\ routes[1].path = T_a_x /\ routes[2].path = T_a_fixed
    /\ Matching(last.key) = {1, 2}
    /\ last.result.handler = "h_x"
    /\ last.result.params = [x \in {"x"} |-> StrVal(<<"f", "i", "x", "e", "d">>)]

\* C6 as stated: of two consecutive find_route calls with the same key, the
\* second returns the same result and evaluates Route.match zero times.
C6_RepeatedLookupScansNothing ==
    (prev.op = "find" /\ last.op = "find" /\ prev.key = last.key) =>
        (last.result = prev.result /\ last.matches = 0)

\* C7: add_route appends exactly one route, keeps the routes before it, and
\* leaves the cache empty; the find_route that follows an add_route is
\* answered by a scan of the route list, never by the cache.
C7_AddRouteStep ==
    (routes' # routes) =>
        /\ Len(routes') = Len(routes) + 1
        /\ SubSeq(routes', 1, Len(routes)) = routes
        /\ route_cache' = <<>>

C7_AfterAdd ==
    /\ (last.op = "add" => (route_cache = <<>> /\ Len(routes) = last.size))
    /\ (last.op = "find" /\ prev.op = "add") => (~last.hit /\ last.matches >= 1)

C7_AddRouteInvalidatesCache == [][C7_AddRouteStep]_vars /\ []C7_AfterAdd

\* C7 witness: a key that was in the cache when add_route was called has been
\* looked up again and was scanned for
C7_Witness ==
    /\ prev.op = "add" /\ last.op = "find"
    /\ last.key \in prev.dropped
    /\ ~last.hit /\ last.matches >= 1

\* C8 as stated: after a cold find_route that scanned the whole table without
\* a match, the same lookup repeated returns no match without any scan.
C8_NegativeResultMemoized ==
    (/\ prev.op = "find" /\ ~prev.hit /\ ~prev.result.found /\ prev.matches = prev.size
     /\ last.op = "find" /\ last.key = prev.key) =>
        (~last.result.found /\ last.matches = 0)

\* the routes whose pattern matches the path, and those of them registered
\* for the method
Fitting(path) == {i \in 1..Len(routes) : RegexMatch(routes[i].pattern, path).ok}

Serving(path, method) == {i \in Fitting(path) : method \in Range(routes[i].methods)}

\* C23: what find_route returns, from a scan or from the cache, is the
\* handler of a route whose pattern matches the path and whose methods
\* contain the requested method; when no route matching the path is
\* registered for the method, it returns no match.
C23_MethodRespected ==
    last.op = "find" =>
        /\ last.result.found =>
               \E i \in Serving(last.key[1], last.key[2]) :
                   routes[i].handler = last.result.handler
        /\ Serving(last.key[1], last.key[2]) = {} => ~last.result.found

\* C23 witness: POST /a/fixed with /a/{x} and /a/fixed registered for GET
\* only: both patterns match the path and find_route returned no match
C23_Witness ==
    /\ last.op = "find"
    /\ last.key = <<P_a_fixed, "POST">>
    /\ Cardinality(Fitting(P_a_fixed)) = 2
    /\ Serving(P_a_fixed, "POST") = {}
    /\ ~last.result.found

\* C24: every entry of the lookup cache is what a scan of the current routes
\* returns for its key.
C24_CacheCoherent ==
    \A key \in DOMAIN route_cache :
        route_cache[key] = Scan(routes, key[1], key[2], 0).result

\* C24 witness: two routes, two cached keys, and a lookup answered from the
\* cache after the second route was added and the cache refilled
C24_Witness ==
    /\ Len(routes) = 2
    /\ Cardinality(DOMAIN route_cache) = 2
    /\ last.op = "find" /\ last.hit
    /\ route_cache[last.key] = last.result

C25_Step ==
    /\ IsPrefix(routes, routes')
    /\ last'.op = "find" =>
          /\ routes' = routes
          /\ DOMAIN route_cache \subseteq DOMAIN route_cache'
          /\ DOMAIN route_cache' \subseteq DOMAIN route_cache \cup {last'.key}
          /\ \A key \in DOMAIN route_cache : route_cache'[key] = route_cache[key]

\* C25: every step keeps the routes it found, in their order, and a
\* find_route step leaves routes as it is and changes the cache at most by
\* an entry for the key it was called with.
C25_FindRouteFrame == [][C25_Step]_vars

\* C25 witness: a lookup added its key to a cache that held another key
C25_Witness ==
    /\ last.op = "find" /\ ~last.hit /\ last.result.found
    /\ prev.op = "find" /\ prev.result.found /\ prev.key # last.key
    /\ DOMAIN route_cache = {prev.key, last.key}
    /\ route_cache[prev.key] = prev.result

----------------------------------------------------------------------------
(* Claims about the dispatcher, checked under Spec *)

Names(mws) == [i \in 1..Len(mws) |-> mws[i].name]

\* the interceptors whose pre-hook (post-hook) a full phase calls, in
\* registration order
BeforeNames == Names(SelectSeq(middleware, HasBefore))

AfterNames == Names(SelectSeq(middleware, HasAfter))

Terminated == rq.pc \in {"sent", "crashed"}

\* a hook or a user-registered exception handler of the request raised
UserHookFailed == rq.hook_failed \/ rq.resolver_failed

\* the handler registered for the HTTPException discriminator is the built-in
BuiltinHttpHandler ==
    \E i \in 1..Len(exception_handlers) :
        /\ exception_handlers[i].key = ClassKey("HTTPException")
        /\ exception_handlers[i].handler = "_handle_http_exception"

\* no post-hook of the application returns another response object
PostHooksKeepResponse == \A i \in 1..Len(middleware) : middleware[i].after # "new"

\* C1 as stated: a request that took one of the three paths (handler
\* returned, route unmatched, handler raised), and in which no hook and no
\* user-registered exception handler raised, ends with exactly one response
\* emitted.
C1_ExactlyOneResponse ==
    (Terminated /\ ~UserHookFailed /\ rq.origin \in {"", "route", "handler"}) =>
        Len(rq.emitted) = 1

\* C2 as stated: with only the built-in handlers installed, a handler failure
\* that is not an HTTPException ends in a response with status 500 and the
\* generic error body, on which every post-hook has run.
C2_UnclassifiedFailureGives500 ==
    (/\ Terminated /\ ~UserHookFailed
     /\ rq.origin = "handler" /\ rq.exc.kind # "HTTPException"
     /\ exception_handlers = DefaultHandlers) =>
        /\ rq.pc = "sent"
        /\ rq.resolved.status_code = 500
        /\ rq.resolved.content.error = JStr("Internal Server Error", <<>>)
        /\ rq.postLog = Reverse(AfterNames)

\* C3: with the built-in HTTPException handler in place, a handler raising
\* HTTPException(c, d) is resolved into a response with status c and body
\* {error: d, status_code: c}; that response is what is emitted unless a
\* post-hook returns another one.
C3_HttpFailureRendered ==
    (/\ rq.origin = "handler" /\ rq.exc.kind = "HTTPException"
     /\ BuiltinHttpHandler
     /\ rq.pc \in {"post", "send", "sent"}) =>
        /\ rq.resolved.cls = "JSONResponse"
        /\ rq.resolved.status_code = rq.exc.status_code
        /\ rq.resolved.content =
              [error |-> rq.exc.detail, status_code |-> JNum(rq.exc.status_code),
               message |-> Absent, result |-> Absent, data |-> Absent]
        /\ rq.pc = "sent" =>
              /\ rq.emitted = <<rq.response>>
              /\ PostHooksKeepResponse => rq.response = rq.resolved

\* C3 witness: a handler raised HTTPException(403, "forbidden") and the
\* response with status 403 and that body was emitted
C3_Witness ==
    /\ rq.pc = "sent"
    /\ rq.origin = "handler"
    /\ rq.exc = HTTPException(403, JStr("forbidden", <<>>))
    /\ Len(rq.emitted) = 1
    /\ rq.emitted[1].status_code = 403
    /\ rq.emitted[1].content.error = JStr("forbidden", <<>>)
    /\ rq.emitted[1].content.status_code = JNum(403)

\* C4: with the built-in HTTPException handler in place, a request that
\* matches no route is resolved into a response with status 404 whose body
\* names the requested path, no handler is called, the first post-hook
\* receives that response, and every post-hook has run by the time the
\* response is sent; only a failure of a post-hook itself keeps the response
\* from being sent.
C4_UnmatchedGives404 ==
    (/\ rq.origin = "route" /\ BuiltinHttpHandler
     /\ rq.pc \in {"post", "send", "sent", "crashed"}) =>
        /\ rq.resolved.status_code = 404
        /\ rq.resolved.content.error.arg = rq.request.path
        /\ rq.resolved.content.status_code = JNum(404)
        /\ rq.handlerCalls = 0 /\ rq.handler = ""
        /\ rq.postSeen # <<>> => rq.postSeen[1] = rq.resolved
        /\ rq.pc \in {"send", "sent"} => rq.postLog = Reverse(AfterNames)
        /\ rq.pc = "sent" => Len(rq.emitted) = 1 /\ rq.emitted[1].status_code = 404
        /\ rq.pc = "crashed" => rq.hook_failed

\* C4 witness: /nope matched none of the registered routes, two post-hooks
\* ran and a 404 naming /nope was sent
C4_Witness ==
    /\ rq.pc = "sent"
    /\ rq.origin = "route"
    /\ routes # <<>>
    /\ rq.request.path = P_nope
    /\ Len(rq.postLog) = 2
    /\ rq.emitted[1].status_code = 404
    /\ rq.emitted[1].content.error.arg = P_nope

\* C9: within a request the pre-hooks are called in registration order and
\* the post-hooks in the reverse order: the calls made so far are always an
\* initial part of those orders, all pre-hooks have been called when routing
\* starts, and all post-hooks when the response is sent.
C9_HookOrder ==
    /\ IsPrefix(rq.preLog, BeforeNames)
    /\ IsPrefix(rq.postLog, Reverse(AfterNames))
    /\ rq.pc \in {"route", "invoke", "normalize"} => rq.preLog = BeforeNames
    /\ rq.pc \in {"send", "sent"} => rq.postLog = Reverse(AfterNames)

\* C9 witness: interceptors [Timing, Rewrite]: pre-hooks Timing then Rewrite,
\* post-hooks Rewrite then Timing
C9_Witness ==
    /\ rq.pc = "sent"
    /\ Names(middleware) = <<"Timing", "Rewrite">>
    /\ rq.preLog = <<"Timing", "Rewrite">>
    /\ rq.postLog = <<"Rewrite", "Timing">>

\* C10 as stated: when a request has ended, and no hook and no
\* user-registered exception handler raised, every interceptor's pre-hook and
\* post-hook has been called exactly once.
C10_EachHookOnce ==
    (Terminated /\ ~UserHookFailed) =>
        (rq.preLog = BeforeNames /\ rq.postLog = Reverse(AfterNames))

\* the place of a dispatcher position in the order of _handle_http_request
PhaseRank(pc) ==
    CASE pc = "idle" -> 0
      [] pc = "pre" -> 1
      [] pc = "route" -> 2
      [] pc = "invoke" -> 3
      [] pc = "normalize" -> 4
      [] pc = "except" -> 5
      [] pc = "post" -> 6
      [] pc = "send" -> 7
      [] OTHER -> 8

C11_Step ==
    /\ rq'.pc # "idle" => PhaseRank(rq'.pc) >= PhaseRank(rq.pc)
    /\ (rq'.pc # "idle" /\ rq'.pc # rq.pc /\ ~(rq.pc = "normalize" /\ rq'.pc = "except")) =>
           PhaseRank(rq'.pc) > PhaseRank(rq.pc)
    /\ Len(rq'.preLog) > Len(rq.preLog) =>
           (rq.lookups = 0 /\ rq.handlerCalls = 0 /\ rq.postLog = <<>>)
    /\ rq'.lookups > rq.lookups =>
           (rq.lookups = 0 /\ rq.preLog = BeforeNames /\ rq.handlerCalls = 0 /\ rq.postLog = <<>>)
    /\ rq'.handlerCalls > rq.handlerCalls =>
           (/\ rq.handlerCalls = 0 /\ rq.lookups = 1 /\ rq.preLog = BeforeNames
            /\ rq.postLog = <<>> /\ rq.resolved = NoResponse)
    /\ rq'.resolved # rq.resolved /\ rq'.resolved # NoResponse =>
           (rq.resolved = NoResponse /\ rq.postLog = <<>>)
    /\ Len(rq'.postLog) > Len(rq.postLog) =>
           (rq.resolved # NoResponse /\ rq.emitted = <<>>)
    /\ Len(rq'.emitted) > Len(rq.emitted) =>
           (rq.emitted = <<>> /\ rq.postLog = Reverse(AfterNames))

C11_State ==
    /\ rq.handlerCalls <= 1 /\ rq.lookups <= 1 /\ Len(rq.emitted) <= 1
    /\ rq.pc \in {"pre", "route"} => (rq.handlerCalls = 0 /\ rq.resolved = NoResponse)
    /\ rq.pc \in {"invoke", "normalize"} => (rq.lookups = 1 /\ rq.postLog = <<>>)
    /\ rq.postLog # <<>> => rq.pc \in {"post", "send", "sent", "crashed"}
    /\ rq.emitted # <<>> => rq.pc = "sent"

\* C11: within a request the dispatcher only moves forward through the order
\* pre-hooks, route lookup, binding and invocation, normalization or failure
\* resolution, post-hooks, emission: a pre-hook is called only before the
\* lookup, the one lookup only after all pre-hooks, the handler only once,
\* after the lookup and before any response or post-hook exists, a post-hook
\* only on a response and before emission, and the one emission only after
\* all post-hooks.
C11_PhaseOrder == [][C11_Step]_vars /\ []C11_State

\* C11 witness: a request went through two pre-hooks, the lookup, one handler
\* call, normalization, two post-hooks and the emission
C11_Witness ==
    /\ rq.pc = "sent"
    /\ Len(rq.preLog) = 2 /\ rq.lookups = 1 /\ rq.handlerCalls = 1
    /\ rq.result.type = "dict"
    /\ Len(rq.postLog) = 2 /\ Len(rq.emitted) = 1

\* C12 as stated: when a pre-hook raised, and no registered exception handler
\* and no post-hook raised, the request ends with the failure resolved into a
\* response, the handler not called, every post-hook applied to that response
\* and the response emitted.
C12_PreHookFailureResolved ==
    (/\ Terminated /\ rq.origin = "pre"
     /\ ~rq.resolver_failed /\ ~rq.post_failed) =>
        /\ rq.pc = "sent"
        /\ rq.resolved # NoResponse
        /\ rq.handlerCalls = 0
        /\ rq.postLog = Reverse(AfterNames)
        /\ rq.postSeen # <<>> => rq.postSeen[1] = rq.resolved
        /\ Len(rq.emitted) = 1

\* C13 as stated: a request never ends with a failure leaving the dispatcher;
\* it ends with one response emitted.
C13_NoFailureEscapes ==
    Terminated => (rq.pc = "sent" /\ rq.escaped = NoExc /\ Len(rq.emitted) = 1)

\* a user handler is registered for the class cls
UserHandlerFor(cls) ==
    \E i \in 1..Len(exception_handlers) :
        /\ exception_handlers[i].key = ClassKey(cls)
        /\ exception_handlers[i].handler = "user_handler"

\* C14 as stated: with a user handler registered for ValueError, a ValueError
\* raised by the route handler is resolved by that handler (and not into the
\* 500 of the built-in default), unless the user handler itself raises.
C14_UserHandlerRendersKind ==
    (/\ rq.origin = "handler" /\ rq.exc.kind = "ValueError"
     /\ UserHandlerFor("ValueError")
     /\ rq.pc \in {"post", "send", "sent", "crashed"}
     /\ ~rq.resolver_failed /\ ~rq.post_failed) =>
        /\ rq.resolved = UserResponse("user_handler", 418)
        /\ rq.resolved.status_code # 500

----------------------------------------------------------------------------
(* Claims about Route.match, checked under SpecMatch *)

\* the value of a string of decimal digits, most significant digit first
RECURSIVE DecimalValue(_)
DecimalValue(s) ==
    IF s = <<>> THEN 0
    ELSE DigitVal(Head(s)) * 10 ^ (Len(s) - 1) + DecimalValue(Tail(s))

\* what follows the first n characters of a path
After(n, path) == SubSeq(path, n + 1, Len(path))

\* C17 as stated: the route /items/{id:int} matches a path /items/<s>
\* exactly when s is a non-empty string of decimal digits, and then id is
\* the integer s denotes.
C17_IntSegmentMatches ==
    (/\ last.op = "match" /\ last.key[2] = "GET"
     /\ routes[1].path = T_items_id
     /\ IsPrefix(Pre_items, last.key[1])) =>
        LET s == After(Len(Pre_items), last.key[1])
        IN /\ last.result.found <=> (s # <<>> /\ AllIn(s, Digits))
           /\ last.result.found =>
                 last.result.params = [n \in {"id"} |-> IntVal(DecimalValue(s))]

\* a sequence cut at every occurrence of a separator
RECURSIVE Split(_, _)
Split(s, sep) ==
    LET at == {i \in 1..Len(s) : s[i] = sep}
    IN IF at = {} THEN <<s>>
       ELSE <<SubSeq(s, 1, Min(at) - 1)>> \o Split(SubSeq(s, Min(at) + 1, Len(s)), sep)

AllUntyped(path) == \A i \in 1..Len(path) : path[i].k # "typed"

IsPlaceholder(tseg) == Len(tseg) = 1 /\ tseg[1].k = "untyped"

\* a path segment against a template segment: any non-empty text at a
\* placeholder, the same text at a literal segment
SegConforms(tseg, pseg) ==
    IF IsPlaceholder(tseg) THEN pseg # <<>>
    ELSE /\ Len(tseg) = Len(pseg)
         /\ \A j \in 1..Len(tseg) : tseg[j].k = "lit" /\ tseg[j].c = pseg[j]

Conforms(ts, ps) ==
    /\ Len(ts) = Len(ps)
    /\ \A i \in 1..Len(ts) : SegConforms(ts[i], ps[i])

\* the segments are those of a conforming path with segments added after
\* it, or added in front of it behind the leading slash
Extended(ts, ps) ==
    /\ Len(ps) > Len(ts)
    /\ \/ Conforms(ts, SubSeq(ps, 1, Len(ts)))
       \/ Conforms(ts, <<ps[1]>> \o SubSeq(ps, Len(ps) - Len(ts) + 2, Len(ps)))

\* the parameters of a conforming path: the text of each placeholder segment
SegmentParams(ts, ps) ==
    LET at == {i \in 1..Len(ts) : IsPlaceholder(ts[i])}
    IN [n \in {ts[i][1].name : i \in at} |->
           StrVal(ps[CHOOSE i \in at : ts[i][1].name = n])]

\* C18 as stated: for a route whose placeholders are all untyped, a path with
\* the template's literal segments and segment count and a non-empty text at
\* every placeholder matches, with each parameter equal to the text of its
\* segment; a path with segments added in front or behind does not match.
C18_UntypedWholePath ==
    (/\ last.op = "match" /\ last.key[2] = "GET"
     /\ AllUntyped(routes[1].path)) =>
        LET ts == Split(routes[1].path, Lit(Slash))
            ps == Split(last.key[1], Slash)
        IN /\ Conforms(ts, ps) =>
                 (last.result.found /\ last.result.params = SegmentParams(ts, ps))
           /\ Extended(ts, ps) => ~last.result.found

\* the spellings of true, 1 and yes in upper and lower case letters
TrueSpellings ==
    {<<a, b, c, d>> : a \in {"t", "T"}, b \in {"r", "R"}, c \in {"u", "U"}, d \in {"e", "E"}}
    \cup {<<"1">>}
    \cup {<<a, b, c>> : a \in {"y", "Y"}, b \in {"e", "E"}, c \in {"s", "S"}}

\* C19: the route /s/{flag:bool} matches every path /s/<w> with w non-empty
\* and free of slashes, and binds flag to the boolean that is true exactly
\* when w is a spelling of true, 1 or yes in any mix of cases.
C19_BoolCoercion ==
    (/\ last.op = "match" /\ last.key[2] = "GET"
     /\ routes[1].path = T_s_flag
     /\ IsPrefix(<<"/", "s", "/">>, last.key[1])
     /\ Len(last.key[1]) > 3
     /\ AllIn(After(3, last.key[1]), {c \in Range(last.key[1]) : c # Slash})) =>
        /\ last.result.found
        /\ last.result.params =
              [n \in {"flag"} |-> BoolVal(After(3, last.key[1]) \in TrueSpellings)]

\* C19 witness: /s/YES bound flag to true
C19_Witness ==
    /\ last.op = "match"
    /\ routes[1].path = T_s_flag
    /\ last.key = <<<<"/", "s", "/", "Y", "E", "S">>, "GET">>
    /\ last.result.found
    /\ last.result.params = [n \in {"flag"} |-> BoolVal(TRUE)]

\* the response the normalization rules give a handler result of some type
Normalized(type) ==
    CASE type = "Response" -> UserResponse("handler", 201)
      [] type \in {"dict", "list"} ->
            Response("JSONResponse", [NoContent EXCEPT !.data = JStr(type, <<>>)], 200)
      [] type = "str" ->
            Response("TextResponse", [NoContent EXCEPT !.data = JStr(type, <<>>)], 200)
      [] OTHER ->
            Response("JSONResponse", [NoContent EXCEPT !.result = JStr(type, <<>>)], 200)

\* C16 as stated: once the value a handler returned has been through
\* normalization, the request has the response the first applicable rule
\* gives (the Response itself, a JSON response of a dict or list, a text
\* response of a str, a JSON response {result: v} of anything else), and the
\* request ends with a response emitted unless a post-hook raises.
C16_ResultNormalized ==
    (rq.result.type # "" /\ rq.pc # "normalize") =>
        /\ rq.origin # "normalize"
        /\ rq.resolved = Normalized(rq.result.type)
        /\ (Terminated /\ ~rq.post_failed) => (rq.pc = "sent" /\ Len(rq.emitted) = 1)

----------------------------------------------------------------------------
(* Claims about the exception handlers, checked under SpecResolver *)

\* the position of a discriminator in the iteration order, 0 when absent
Position(handlers, key) ==
    IF \E i \in 1..Len(handlers) : handlers[i].key = key
    THEN CHOOSE i \in 1..Len(handlers) : handlers[i].key = key
    ELSE 0

C15_Step ==
    LET key == last'.exc_class
        at == Position(exception_handlers, key)
    IN (last'.op = "handler" /\ at # 0) =>
          /\ Len(exception_handlers') = Len(exception_handlers)
          /\ exception_handlers'[at] = [key |-> key, handler |-> last'.handler]
          /\ \A i \in 1..Len(exception_handlers) :
                 i # at => exception_handlers'[i] = exception_handlers[i]

\* no discriminator is held twice, and the built-in ones keep their places
C15_State ==
    /\ \A i, j \in 1..Len(exception_handlers) :
           exception_handlers[i].key = exception_handlers[j].key => i = j
    /\ exception_handlers[1].key = ClassKey("HTTPException")
    /\ exception_handlers[2].key = CodeKey(500)
    /\ exception_handlers[3].key = CodeKey(404)

\* C15: add_exception_handler for a discriminator that is already registered
\* puts the new function at the discriminator's old position and changes no
\* other entry; the three built-in discriminators stay first, in their order.
C15_ReRegistrationKeepsOrder == [][C15_Step]_vars /\ []C15_State

\* C15 witness: ValueError was registered, then the built-in HTTPException
\* discriminator was registered again with user_handler: it is still first,
\* the other entries are as before, and an HTTPException is now rendered by
\* user_handler
C15_Witness ==
    /\ last.op = "handler" /\ last.exc_class = ClassKey("HTTPException")
    /\ exception_handlers =
          <<[key |-> ClassKey("HTTPException"), handler |-> "user_handler"],
            [key |-> CodeKey(500), handler |-> "_handle_500_exception"],
            [key |-> CodeKey(404), handler |-> "_handle_404_exception"],
            [key |-> ClassKey("ValueError"), handler |-> "other_handler"]>>
    /\ rq.exc.kind = "HTTPException"
    /\ rq.resolved = UserResponse("user_handler", 418)

\* a discriminator matches a failure as the resolver is described: it is the
\* failure's own kind or a category that kind belongs to
Discriminates(key, exc) == key.cls # "" /\ key.cls \in Bases(exc.kind)

\* the earliest registered discriminator that matches, 0 when none does
FirstDiscriminating(handlers, exc) ==
    LET S == {i \in 1..Len(handlers) : Discriminates(handlers[i].key, exc)}
    IN IF S = {} THEN 0 ELSE Min(S)

\* C20 as stated: when some registered discriminator matches the failure, the
\* handler of the earliest registered one is called with it: its response is
\* the resolution, or its own failure is what the resolution raises.
C20_FirstMatchHandles ==
    LET at == FirstDiscriminating(exception_handlers, rq.exc)
    IN (rq.origin = "resolve" /\ at # 0) =>
          LET h == exception_handlers[at].handler
          IN IF rq.resolver_failed
             THEN rq.escaped = CallHandler(h, rq.exc, TRUE).exc
             ELSE rq.resolved = CallHandler(h, rq.exc, FALSE).response

----------------------------------------------------------------------------
(* Claims about hooks, argument binding and timings, checked under Spec *)

\* the working object after a hook that was given obj: unchanged when the
\* hook yields nothing (or fails), the hook's return value otherwise
AfterBefore(m, obj) == IF m.before = "new" THEN m.name ELSE obj

AfterAfter(m, response) ==
    IF m.after = "new" THEN UserResponse(m.name, response.status_code) ELSE response

\* the objects a chain of pre-hooks is given one after the other, followed by
\* the object the chain ends with
RECURSIVE RequestChain(_, _)
RequestChain(ms, obj) ==
    IF ms = <<>> THEN <<obj>>
    ELSE <<obj>> \o RequestChain(Tail(ms), AfterBefore(Head(ms), obj))

RECURSIVE ResponseChain(_, _)
ResponseChain(ms, response) ==
    IF ms = <<>> THEN <<response>>
    ELSE <<response>> \o ResponseChain(Tail(ms), AfterAfter(Head(ms), response))

Last(s) == s[Len(s)]

\* C21: each pre-hook is given the request the hooks before it left (the
\* incoming request after a hook that returned None, the returned request
\* otherwise), and routing works on what the last one left; each post-hook
\* is given the response the hooks before it left, starting from the
\* resolved response, and what the last one left is what is emitted.
C21_HookFallback ==
    LET pre == RequestChain(SelectSeq(middleware, HasBefore), "r0")
        post == ResponseChain(Reverse(SelectSeq(middleware, HasAfter)), rq.resolved)
    IN /\ rq.pc # "idle" => IsPrefix(rq.preSeen, pre)
       /\ rq.pc \in {"route", "invoke", "normalize"} => rq.request.obj = Last(pre)
       /\ rq.postSeen # <<>> => IsPrefix(rq.postSeen, post)
       /\ rq.pc = "send" => rq.response = Last(post)
       /\ rq.pc = "sent" => rq.emitted = <<Last(post)>>

\* C21 witness: interceptors [Rewrite, Quiet]: Quiet's pre-hook was given
\* Rewrite's request and returned None, routing ran on Rewrite's request;
\* Quiet's post-hook returned None, Rewrite's post-hook was given the
\* resolved response and its own response was emitted
C21_Witness ==
    /\ rq.pc = "sent"
    /\ Names(middleware) = <<"Rewrite", "Quiet">>
    /\ rq.preSeen = <<"r0", "Rewrite">>
    /\ rq.request.obj = "Rewrite"
    /\ rq.postSeen = <<rq.resolved, rq.resolved>>
    /\ rq.emitted = <<UserResponse("Rewrite", rq.resolved.status_code)>>

\* C22, checked under SpecBind: every parameter of the handler whose name is
\* a key of the path parameters is bound to that path parameter, also when
\* its name is request; of the others, one named request or annotated with
\* Request is bound to the request; every other parameter is left out, and
\* nothing but parameters of the handler is bound.
C22_BindByName ==
    rq.origin = "bind" =>
        LET sig == Signature(rq.handler)
            pp == rq.request.path_params
            args == rq.handler_args
        IN /\ \A i \in 1..Len(sig) :
                  IF sig[i].name \in DOMAIN pp
                  THEN sig[i].name \in DOMAIN args
                       /\ args[sig[i].name] = PathArg(pp[sig[i].name])
                  ELSE IF sig[i].name = "request" \/ sig[i].annotation = "Request"
                  THEN sig[i].name \in DOMAIN args /\ args[sig[i].name] = RequestArg
                  ELSE sig[i].name \notin DOMAIN args
           /\ DOMAIN args \subseteq {sig[i].name : i \in 1..Len(sig)}

\* C22 witness: handler(request, q) with path parameters {request: "4"}:
\* request is bound to the path parameter and q is left out
C22_Witness ==
    /\ rq.origin = "bind"
    /\ rq.handler = "h_req"
    /\ rq.request.path_params = [n \in {"request"} |-> StrVal(<<"4">>)]
    /\ rq.handler_args = [n \in {"request"} |-> PathArg(StrVal(<<"4">>))]

----------------------------------------------------------------------------
(* Claims about concurrent requests, checked under SpecTasks *)

\* C26 as stated: the handler and the path parameters a request was given by
\* find_route are those a scan of the routes extracts from the request's own
\* path and method, whatever other requests and their handlers did before.
C26_RequestIsolation ==
    \A t \in DOMAIN tasks :
        tasks[t].handler # "" =>
            LET own == Scan(routes, tasks[t].scope.path, tasks[t].scope.method, 0).result
            IN /\ tasks[t].handler = own.handler
               /\ tasks[t].params = own.params
               /\ tasks[t].handler_args = PrepareHandlerArgs(own.handler, own.params)

\* the tasks that return from an http request in this step
Returning == {t \in DOMAIN tasks : tasks[t].pc = "sending" /\ tasks'[t].pc = "returned"}

C27_Step ==
    IF Returning = {}
    THEN request_times' = request_times
    ELSE /\ Cardinality(Returning) = 1
         /\ Len(request_times') = Min({Len(request_times) + 1, KeepTimings})
         /\ request_times'[Len(request_times')] \in Returning
         /\ SubSeq(request_times', 1, Len(request_times') - 1) =
               IF Len(request_times) = KeepTimings THEN Tail(request_times)
               ELSE request_times

\* C27: between the steps of concurrent requests request_times holds at most
\* 1000 entries; a step in which an http request returns appends that
\* request's timing and, when the list held 1000, drops the oldest; every
\* other step, those of a call with another scope included, leaves the list
\* as it is.
C27_TimingsCapped == [][C27_Step]_vars /\ [](Len(request_times) <= KeepTimings)

\* C27 witness: two http requests and the list at 999 entries before them:
\* both timings are at the end of a list of 1000, the oldest entry dropped
C27_Witness ==
    /\ Len(tasks) = 2
    /\ \A t \in DOMAIN tasks : tasks[t].scope.type = "http" /\ tasks[t].pc = "returned"
    /\ Len(request_times) = KeepTimings
    /\ {request_times[KeepTimings - 1], request_times[KeepTimings]} = {1, 2}
    /\ request_times[1] = 0

====
